---- MODULE Spec2Model ----
(***************************************************************************)
(* SpinGrid (src/components/SpinGrid.tsx): a square lattice of spins that  *)
(* is built by a React effect and advanced once per rendered frame by a    *)
(* forward-Euler step of a damped-precession (LLG) law.                    *)
(*                                                                         *)
(* Numbers.  The program computes in IEEE doubles.  The model computes in  *)
(* fixed point: a real x is carried as the integer nearest to x * One, and *)
(* every arithmetic operation rounds its result to the nearest carried     *)
(* value, symmetrically in the sign, as a floating-point operation does.   *)
(* One carried unit plays the part of one unit in the last place.          *)
(* Parameter values are in scaled units (the documented physical values    *)
(* such as 5e5 or 5e-10 do not fit the carried range); what the step       *)
(* depends on is their products, which are of order one in both.           *)
(***************************************************************************)
EXTENDS Integers, Sequences, FiniteSets, TLC

\* ------------------------------------------------------------------- state

VARIABLES
    props,              \* the props of the last render of SpinGrid
    ray,                \* raycaster.ray as the last frame set it
    mousePosRef,        \* mousePosRef.current
    spinsRef,           \* spinsRef.current
    prevDirectionsRef,  \* prevDirectionsRef.current
    instanceMatrix,     \* the instance buffer of headMeshRef / shaftMeshRef
    needsUpdate,        \* instanceMatrix.needsUpdate = true was run on these meshes
    builtSize,          \* << >>, or <<N>>: the gridSize the builder last ran for
    pendingBuild,       \* the [gridSize] effect is scheduled and has not run
    pendingSnapshot,    \* the [spinsRef.current] effect is scheduled and has not run
    depStale,           \* spinsRef.current was replaced since the last render read it
    frames,             \* frames delivered so far
    frameDelta,         \* delta, as the last frame was called with
    frameDt             \* dt, as the last frame computed it

vars == <<props, ray, mousePosRef, spinsRef, prevDirectionsRef, instanceMatrix,
          needsUpdate, builtSize, pendingBuild, pendingSnapshot, depStale, frames, frameDelta, frameDt>>

\* ------------------------------------------------------------------ bounds

\* Largest gridSize a render may pass.
MaxGrid == 3

\* Number of frames delivered in one behaviour; no render follows the last.
MaxFrames == 2

\* ----------------------------------------------------------------- numbers

\* The carried integer of the real number 1.
One == 1000

Abs(a) == IF a < 0 THEN -a ELSE a

Sgn(a) == IF a < 0 THEN -1 ELSE IF a > 0 THEN 1 ELSE 0

\* a / b for b > 0, rounded to the nearest integer, halves away from zero.
RoundDiv(a, b) == Sgn(a) * ((2 * Abs(a) + b) \div (2 * b))

\* Product and quotient of two carried numbers.
Mul(a, b) == RoundDiv(a * b, One)

Div(a, b) == Sgn(b) * RoundDiv(a * One, Abs(b))

Min(a, b) == IF a < b THEN a ELSE b

RECURSIVE SqrtSearch(_, _, _)
SqrtSearch(n, lo, hi) ==
    IF lo >= hi THEN lo
    ELSE LET mid == (lo + hi + 1) \div 2
         IN  IF mid * mid <= n THEN SqrtSearch(n, mid, hi)
                               ELSE SqrtSearch(n, lo, mid - 1)

\* Math.sqrt of a carried number, rounded to the nearest carried number.
Sqrt(r) ==
    LET n == r * One
        f == SqrtSearch(n, 0, 46340)
    IN  IF n - f * f > f THEN f + 1 ELSE f

\* ----------------------------------------------------------------- vectors
\* THREE.Vector3 as <<x, y, z>> of carried numbers.

Vec(x, y, z) == <<x, y, z>>

ZeroVec == Vec(0, 0, 0)

AddVectors(a, b) == Vec(a[1] + b[1], a[2] + b[2], a[3] + b[3])

SubVectors(a, b) == Vec(a[1] - b[1], a[2] - b[2], a[3] - b[3])

MultiplyScalar(v, s) == Vec(Mul(v[1], s), Mul(v[2], s), Mul(v[3], s))

Negate(v) == Vec(-v[1], -v[2], -v[3])

Dot(a, b) == Mul(a[1], b[1]) + Mul(a[2], b[2]) + Mul(a[3], b[3])

LengthSq(v) == Dot(v, v)

Length(v) == Sqrt(LengthSq(v))

\* Normalize that turns a zero-length vector into the z axis.
NormalizeZeroToAxis(v) ==
    LET len == Length(v)
    IN  IF len = 0 THEN Vec(0, 0, One) ELSE MultiplyScalar(v, Div(One, len))

\* Vector3.normalize: divideScalar(length() || 1), and divideScalar(s) is
\* multiplyScalar(1 / s).  A zero-length vector is left as it is.
Normalize(v) ==
    LET len == Length(v)
    IN  MultiplyScalar(v, Div(One, IF len = 0 THEN One ELSE len))

CrossVectors(a, b) ==
    Vec(Mul(a[2], b[3]) - Mul(a[3], b[2]),
        Mul(a[3], b[1]) - Mul(a[1], b[3]),
        Mul(a[1], b[2]) - Mul(a[2], b[1]))

\* v + w * s
AddScaledVector(v, w, s) == AddVectors(v, MultiplyScalar(w, s))

\* --------------------------------------------------------------- constants

\* const SPACING = 0.5
SPACING == One \div 2

\* The 0.03 of Math.min(delta, 0.03).
DELTA_CLAMP == (3 * One) \div 100

\* The 5 of 1 + distSq * 5 (a plain factor, not a carried number).
FALLOFF == 5

\* The 1e6 of exchangeStrength * 1e6.
EXCHANGE_SCALE == 1000000

\* const initialUpDirection = new THREE.Vector3(0, 0, 1)
initialUpDirection == Vec(0, 0, One)

\* The plane z = 0: new THREE.Plane(new THREE.Vector3(0, 0, 1), 0).
PlaneNormal == Vec(0, 0, One)

PlaneConstant == 0 * One

\* ------------------------------------------------------------------ inputs

\* The numeric props of SpinGrid.  exchangeStrength is carried in millionths
\* (the carried c stands for c / (One * 1e6)); the other four are carried
\* numbers.
Defaults ==
    [gamma |-> One, alpha |-> (3 * One) \div 10, exchangeStrength |-> One \div 2,
     externalFieldStrength |-> 2 * One, timeStepScale |-> 10 * One]

Larger ==
    [gamma |-> 2 * One, alpha |-> (3 * One) \div 2, exchangeStrength |-> One,
     externalFieldStrength |-> 3 * One, timeStepScale |-> 20 * One]

\* A props object of SpinGrid.
MakeProps(n, inv, p) ==
    [gridSize |-> n, isFieldInverted |-> inv, gamma |-> p.gamma, alpha |-> p.alpha,
     exchangeStrength |-> p.exchangeStrength,
     externalFieldStrength |-> p.externalFieldStrength,
     timeStepScale |-> p.timeStepScale]

\* The props a render may pass while the dynamics is explored: the empty
\* grid and the grids of one and four sites with the default parameters and
\* the field as it is, the latter two also with the larger parameters and the
\* field inverted.
AllProps ==
    { MakeProps(n, FALSE, Defaults) : n \in 0 .. 2 }
        \cup { MakeProps(n, TRUE, Larger) : n \in 1 .. 2 }

\* The props a render may pass while the lattice builder is explored: every
\* gridSize from the malformed -1 and 0 up to MaxGrid.
LatticeProps == { MakeProps(n, FALSE, Defaults) : n \in -1 .. MaxGrid }

\* Rays the raycaster may hold after setFromCamera(pointer, camera): an
\* oblique one that meets the plane at (0.25, 0.25, 0), one that lies in the
\* plane and starts at (0, 0, 0), and one that points away from the plane
\* and does not meet it.
ObliqueRay ==
    [origin |-> Vec(One, One \div 4, One),
     direction |-> Vec(-(3 * One) \div 5, 0, -(4 * One) \div 5)]

InPlaneRay == [origin |-> ZeroVec, direction |-> Vec(One, 0, 0)]

AwayRay == [origin |-> Vec(0, 0, 14 * One), direction |-> Vec(0, 0, One)]

\* What a frame is called with: the ray the pointer and the camera give, and
\* the delta in seconds (0.03, 0.016, 0.05).
FrameInputs ==
    { [ray |-> ObliqueRay, delta |-> (3 * One) \div 100],
      [ray |-> InPlaneRay, delta |-> (16 * One) \div 1000],
      [ray |-> AwayRay, delta |-> (5 * One) \div 100] }

\* The frames delivered while the lattice builder is explored.
LatticeFrameInputs == { [ray |-> ObliqueRay, delta |-> (16 * One) \div 1000] }

\* The ray of a new Raycaster: from the origin along -z.
InitialRay == [origin |-> ZeroVec, direction |-> Vec(0, 0, -One)]

\* What intersectPlane returns when the ray does not meet the plane (null).
NoHit == << >>

\* ----------------------------------------------------------- lattice build

\* Neighbors with the lower bounds tested as i < N and j < N: the last row
\* and column get a neighbour beyond them.
NeighborsOffByOne(N, i, j) ==
    LET a == IF i > 0 THEN << (i - 1) * N + j >> ELSE << >>
        b == IF i < N THEN << (i + 1) * N + j >> ELSE << >>
        c == IF j > 0 THEN << i * N + (j - 1) >> ELSE << >>
        d == IF j < N THEN << i * N + (j + 1) >> ELSE << >>
    IN  a \o b \o c \o d

\* Neighbors without the push of the site in the next row.
NeighborsOneWay(N, i, j) ==
    LET a == IF i > 0 THEN << (i - 1) * N + j >> ELSE << >>
        c == IF j > 0 THEN << i * N + (j - 1) >> ELSE << >>
        d == IF j < N - 1 THEN << i * N + (j + 1) >> ELSE << >>
    IN  a \o c \o d

\* The neighbour pushes of the builder, in the order of the code.
Neighbors(N, i, j) ==
    LET a == IF i > 0 THEN << (i - 1) * N + j >> ELSE << >>
        b == IF i < N - 1 THEN << (i + 1) * N + j >> ELSE << >>
        c == IF j > 0 THEN << i * N + (j - 1) >> ELSE << >>
        d == IF j < N - 1 THEN << i * N + (j + 1) >> ELSE << >>
    IN  a \o b \o c \o d

\* const offset = (gridSize - 1) * SPACING / 2
Offset(N) == RoundDiv((N - 1) * SPACING, 2)

\* Quaternion.setFromUnitVectors(initialUpDirection, d), carried before its
\* normalisation: (up x d, up . d + 1).
SetFromUnitVectors(d) == << -d[2], d[1], 0, d[3] + One >>

\* Matrix4.compose(position, q, scale) with scale (1, 1, 1).
Compose(position, direction) ==
    [translation |-> position, rotation |-> SetFromUnitVectors(direction)]

\* NewSpin that takes over the direction of the site the old lattice has at
\* the same index.
NewSpinLeaky(N, i, j) ==
    LET position == Vec(i * SPACING - Offset(N), j * SPACING - Offset(N), 0)
        direction == IF i * N + j + 1 \in DOMAIN spinsRef
                     THEN spinsRef[i * N + j + 1].direction ELSE Vec(0, 0, One)
    IN  [id |-> <<i, j>>, position |-> position, direction |-> direction,
         matrix |-> Compose(position, direction), neighbors |-> Neighbors(N, i, j)]

\* The body of the builder's inner loop: the spin pushed for (i, j).
NewSpin(N, i, j) ==
    LET position == Vec(i * SPACING - Offset(N), j * SPACING - Offset(N), 0)
        direction == Vec(0, 0, One)
    IN  [id |-> <<i, j>>, position |-> position, direction |-> direction,
         matrix |-> Compose(position, direction), neighbors |-> Neighbors(N, i, j)]

RECURSIVE InnerLoop(_, _, _, _)
InnerLoop(N, i, j, acc) ==
    IF j < N THEN InnerLoop(N, i, j + 1, Append(acc, NewSpin(N, i, j))) ELSE acc

RECURSIVE OuterLoop(_, _, _)
OuterLoop(N, i, acc) ==
    IF i < N THEN OuterLoop(N, i + 1, InnerLoop(N, i, 0, acc)) ELSE acc

\* The initialSpins array the effect builds for gridSize N.
BuildLattice(N) == OuterLoop(N, 0, << >>)

\* A matrix slot of an InstancedMesh that nothing was written to yet (the
\* buffer is a zero-filled Float32Array).
Unset == [translation |-> ZeroVec, rotation |-> <<0, 0, 0, 0>>]

\* The instanceMatrix buffer of a new InstancedMesh with count N * N.
NewInstanceMatrix(N) == [k \in 1 .. N * N |-> Unset]

\* setMatrixAt(index, matrix): a write past the end of the buffer is dropped.
SetMatrixAt(buffer, index, matrix) ==
    IF index + 1 \in DOMAIN buffer THEN [buffer EXCEPT ![index + 1] = matrix] ELSE buffer

RECURSIVE SetAllMatrices(_, _, _)
SetAllMatrices(buffer, spins, k) ==
    IF k > Len(spins) THEN buffer
    ELSE SetAllMatrices(SetMatrixAt(buffer, k - 1, spins[k].matrix), spins, k + 1)

\* spinsRef.current.map(s => s.direction.clone())
CloneDirections(spins) == [k \in 1 .. Len(spins) |-> spins[k].direction]

\* ------------------------------------------------------------------- frame

\* TimeStep without the clamp.
TimeStepUnclamped(delta, timeStepScale) == Mul(delta, timeStepScale)

\* const dt = Math.min(delta, 0.03) * timeStepScale
TimeStep(delta, timeStepScale) == Mul(Min(delta, DELTA_CLAMP), timeStepScale)

\* Ray.intersectPlane(plane, target): the point where the ray meets the
\* plane, or NoHit.  distanceToPlane gives t = -(origin . normal + constant)
\* / (normal . direction), null when t < 0 or when the ray is parallel to
\* the plane and does not start in it.
IntersectPlane(r) ==
    LET denominator == Dot(PlaneNormal, r.direction)
        t == Div(-(Dot(r.origin, PlaneNormal) + PlaneConstant), denominator)
    IN  IF denominator = 0
        THEN IF Dot(PlaneNormal, r.origin) + PlaneConstant = 0 THEN r.origin ELSE NoHit
        ELSE IF t >= 0 THEN AddScaledVector(r.origin, r.direction, t) ELSE NoHit

\* UpdatePointer that copies target whether or not the ray met the plane
\* (target is a new, zero vector when it did not).
UpdatePointerAlways(mouse, r) ==
    IF IntersectPlane(r) # NoHit THEN IntersectPlane(r) ELSE ZeroVec

\* if (raycaster.ray.intersectPlane(plane, target)) mousePosRef.current.copy(target)
UpdatePointer(mouse, r) ==
    IF IntersectPlane(r) # NoHit THEN IntersectPlane(r) ELSE mouse

\* ExternalTerm that negates the strength whatever the flag says.
ExternalTermAlwaysNegated(position, mouse, p) ==
    LET offset == SubVectors(position, mouse)
        distSq == LengthSq(offset)
        s0 == Div(p.externalFieldStrength, One + distSq * FALLOFF)
    IN  MultiplyScalar(Normalize(offset), -s0)

\* The external term: the offset from the pointer to the site, normalised
\* and scaled by externalFieldStrength / (1 + distSq * 5), negated when
\* isFieldInverted is set.
ExternalTerm(position, mouse, p) ==
    LET offset == SubVectors(position, mouse)
        distSq == LengthSq(offset)
        s0 == Div(p.externalFieldStrength, One + distSq * FALLOFF)
        strength == IF p.isFieldInverted THEN Mul(s0, -One) ELSE s0
    IN  MultiplyScalar(Normalize(offset), strength)

\* The neighbour's direction the exchange sum reads, or the zero vector when
\* prevDirectionsRef.current has no entry for it (the guard of the code).
NeighborDirection(prev, neighborIndex) ==
    IF neighborIndex + 1 \in DOMAIN prev THEN prev[neighborIndex + 1] ELSE ZeroVec

RECURSIVE SumNeighbors(_, _, _, _)
SumNeighbors(neighbors, prev, k, acc) ==
    IF k > Len(neighbors) THEN acc
    ELSE SumNeighbors(neighbors, prev, k + 1,
                      AddVectors(acc, NeighborDirection(prev, neighbors[k])))

\* const exchangeScaling = exchangeStrength * 1e6 (exchangeStrength is
\* carried in millionths, the result is a carried number).
ExchangeScaling(exchangeStrength) ==
    (exchangeStrength * EXCHANGE_SCALE) \div EXCHANGE_SCALE

\* The exchange term: the sum of the snapshot directions of the neighbours,
\* scaled.
ExchangeTerm(neighbors, prev, p) ==
    MultiplyScalar(SumNeighbors(neighbors, prev, 1, ZeroVec),
                   ExchangeScaling(p.exchangeStrength))

\* H_eff.addVectors(H_ext, H_exch)
EffectiveField(spin, mouse, prev, p) ==
    AddVectors(ExternalTerm(spin.position, mouse, p),
               ExchangeTerm(spin.neighbors, prev, p))

\* dm/dt = -gamma_eff (m x H) - gamma_eff alpha (m x (m x H))
Derivative(m, H, p) ==
    LET gamma_eff == Div(p.gamma, One + Mul(p.alpha, p.alpha))
        c1 == CrossVectors(m, H)
        c2 == CrossVectors(m, c1)
        term1 == MultiplyScalar(c1, -gamma_eff)
        term2 == MultiplyScalar(c2, Mul(-gamma_eff, p.alpha))
    IN  AddVectors(term1, term2)

\* Integrate without the renormalisation.
IntegrateNoNormalize(direction, dmdt, dt) == AddScaledVector(direction, dmdt, dt)

\* Integrate with add(dmdt).addScalar(dt) in place of addScaledVector(dmdt, dt).
IntegrateAddScalar(direction, dmdt, dt) ==
    Normalize(AddVectors(AddVectors(direction, dmdt), Vec(dt, dt, dt)))

\* spin.direction.addScaledVector(dmdt, dt); spin.direction.normalize()
Integrate(direction, dmdt, dt) == Normalize(AddScaledVector(direction, dmdt, dt))

\* The new direction of one site: field evaluator, then integrator.
StepSite(spin, mouse, prev, p, dt) ==
    Integrate(spin.direction,
              Derivative(spin.direction, EffectiveField(spin, mouse, prev, p), p), dt)

\* SnapshotAfterWrite for a snapshot that holds the live vectors instead of
\* clones: the write shows in it.
SnapshotAliased(prev, index, newDirection) == [prev EXCEPT ![index + 1] = newDirection]

\* What the snapshot array holds after spin.direction of site `index` was
\* overwritten: its entries are clones (line 155), so the write does not
\* reach it.
SnapshotAfterWrite(prev, index, newDirection) == prev

\* SiteLoop that integrates into spin.position as well as spin.direction.
RECURSIVE SiteLoopMovingPosition(_, _, _, _, _, _)
SiteLoopMovingPosition(order, k, st, mouse, p, dt) ==
    IF k > Len(order) THEN st
    ELSE LET index == order[k]
             spin == st.spins[index + 1]
             d == StepSite(spin, mouse, st.prev, p, dt)
             moved == [spin EXCEPT !.direction = d,
                                   !.position = AddScaledVector(spin.position, d, dt),
                                   !.matrix = Compose(spin.position, d)]
         IN  SiteLoopMovingPosition(order, k + 1,
                      [spins |-> [st.spins EXCEPT ![index + 1] = moved],
                       prev |-> SnapshotAfterWrite(st.prev, index, d),
                       buffer |-> SetMatrixAt(st.buffer, index, moved.matrix)],
                      mouse, p, dt)

\* The forEach over the sites, taken in the given order of (0-based) indices.
\* st is [spins, prev, buffer]: the live spins, the snapshot array and the
\* instanceMatrix buffer.
RECURSIVE SiteLoop(_, _, _, _, _, _)
SiteLoop(order, k, st, mouse, p, dt) ==
    IF k > Len(order) THEN st
    ELSE LET index == order[k]
             spin == st.spins[index + 1]
             d == StepSite(spin, mouse, st.prev, p, dt)
             moved == [spin EXCEPT !.direction = d, !.matrix = Compose(spin.position, d)]
         IN  SiteLoop(order, k + 1,
                      [spins |-> [st.spins EXCEPT ![index + 1] = moved],
                       prev |-> SnapshotAfterWrite(st.prev, index, d),
                       buffer |-> SetMatrixAt(st.buffer, index, moved.matrix)],
                      mouse, p, dt)

\* The order of Array.forEach: 0, 1, ..., n - 1.
ForEachOrder(n) == [k \in 1 .. n |-> k - 1]

\* FrameUpdate without lines 155 and 156: the site loop reads the snapshot
\* the [spinsRef.current] effect left in prevDirectionsRef.current.
FrameUpdateStaleSnapshot(order, spins, buffer, mouse, p, dt) ==
    SiteLoop(order, 1, [spins |-> spins, prev |-> prevDirectionsRef, buffer |-> buffer],
             mouse, p, dt)

\* The update of one frame from the snapshot on (lines 155 to 197).
FrameUpdate(order, spins, buffer, mouse, p, dt) ==
    SiteLoop(order, 1, [spins |-> spins, prev |-> CloneDirections(spins), buffer |-> buffer],
             mouse, p, dt)

\* EarlyReturn that never returns early.
EarlyReturnNever(spins) == FALSE

\* if (!headMeshRef.current || !shaftMeshRef.current ||
\*     spinsRef.current.length === 0) return;
\* The two meshes are attached from the first commit on, before any frame.
EarlyReturn(spins) == Len(spins) = 0

\* ----------------------------------------------------------------- actions

\* The state after the first commit with the given props: refs hold their
\* initial values, the meshes exist, both effects are scheduled.
Mounted(firstProps) ==
    /\ props = firstProps
    /\ ray = InitialRay
    /\ mousePosRef = ZeroVec
    /\ spinsRef = << >>
    /\ prevDirectionsRef = << >>
    /\ instanceMatrix = NewInstanceMatrix(firstProps.gridSize)
    /\ needsUpdate = FALSE
    /\ builtSize = << >>
    /\ pendingBuild = TRUE
    /\ pendingSnapshot = TRUE
    /\ depStale = FALSE
    /\ frames = 0
    /\ frameDelta = 0
    /\ frameDt = 0

Init == \E firstProps \in AllProps : Mounted(firstProps)

InitLattice == \E firstProps \in LatticeProps : Mounted(firstProps)

\* The parent renders SpinGrid with new props.  Pending effects are flushed
\* before a render, so none is pending here.  The [gridSize] effect is
\* scheduled when gridSize changed, the [spinsRef.current] effect when the
\* array changed since the last render; a changed instance count replaces
\* the meshes, and the new ones have a fresh buffer that no needsUpdate was
\* set on.
Render(newProps) ==
    /\ frames < MaxFrames
    /\ ~pendingBuild /\ ~pendingSnapshot
    /\ newProps # props \/ depStale
    /\ props' = newProps
    /\ pendingBuild' = (newProps.gridSize # props.gridSize)
    /\ pendingSnapshot' = depStale
    /\ depStale' = FALSE
    /\ instanceMatrix' =
           IF newProps.gridSize * newProps.gridSize # props.gridSize * props.gridSize
           THEN NewInstanceMatrix(newProps.gridSize) ELSE instanceMatrix
    /\ needsUpdate' =
           IF newProps.gridSize * newProps.gridSize # props.gridSize * props.gridSize
           THEN FALSE ELSE needsUpdate
    /\ UNCHANGED <<ray, mousePosRef, spinsRef, prevDirectionsRef, builtSize, frames,
                   frameDelta, frameDt>>

\* The passive effects of the last commit run, in the order of the code:
\* the lattice builder, then the prevDirectionsRef effect.
RunEffects ==
    /\ pendingBuild \/ pendingSnapshot
    /\ LET built == IF pendingBuild THEN BuildLattice(props.gridSize) ELSE spinsRef
       IN  /\ spinsRef' = built
           /\ instanceMatrix' =
                  IF pendingBuild THEN SetAllMatrices(instanceMatrix, built, 1)
                                  ELSE instanceMatrix
           /\ prevDirectionsRef' =
                  IF pendingSnapshot THEN CloneDirections(built) ELSE prevDirectionsRef
    /\ needsUpdate' = (pendingBuild \/ needsUpdate)
    /\ builtSize' = IF pendingBuild THEN <<props.gridSize>> ELSE builtSize
    /\ depStale' = (pendingBuild \/ depStale)
    /\ pendingBuild' = FALSE
    /\ pendingSnapshot' = FALSE
    /\ UNCHANGED <<props, ray, mousePosRef, frames, frameDelta, frameDt>>

\* The useFrame callback, called with a delta while the pointer and the
\* camera give the ray r.
Frame(r, d) ==
    /\ frames < MaxFrames
    /\ frames' = frames + 1
    /\ frameDelta' = d
    /\ frameDt' = TimeStep(d, props.timeStepScale)
    /\ ray' = r
    /\ mousePosRef' = UpdatePointer(mousePosRef, r)
    /\ IF EarlyReturn(spinsRef)
       THEN UNCHANGED <<spinsRef, prevDirectionsRef, instanceMatrix, needsUpdate>>
       ELSE LET st == FrameUpdate(ForEachOrder(Len(spinsRef)), spinsRef, instanceMatrix,
                                  mousePosRef', props, frameDt')
            IN  /\ spinsRef' = st.spins
                /\ prevDirectionsRef' = st.prev
                /\ instanceMatrix' = st.buffer
                /\ needsUpdate' = TRUE
    /\ UNCHANGED <<props, builtSize, pendingBuild, pendingSnapshot, depStale>>

Next ==
    \/ \E newProps \in AllProps : Render(newProps)
    \/ RunEffects
    \/ \E in \in FrameInputs : Frame(in.ray, in.delta)

Spec == Init /\ [][Next]_vars

NextLattice ==
    \/ \E newProps \in LatticeProps : Render(newProps)
    \/ RunEffects
    \/ \E in \in LatticeFrameInputs : Frame(in.ray, in.delta)

\* The same program, explored over every grid size with one kind of frame.
SpecLattice == InitLattice /\ [][NextLattice]_vars

\* ------------------------------------------------------------------ claims

\* A step of the behaviour that is a frame.
FrameStep == frames' = frames + 1

\* A step of the behaviour in which the lattice builder ran.
BuildStep == pendingBuild /\ ~pendingBuild'

Up == Vec(0, 0, One)

\* C1: in every reachable state every site's direction has length 1 within
\* the rounding tolerance (two carried units), so it is never the zero vector.
C1_UnitLength ==
    \A k \in 1 .. Len(spinsRef) : Abs(Length(spinsRef[k].direction) - One) <= 2

\* C1 witness: frames have moved a spin away from its initial direction.
C1_Witness ==
    /\ frames = MaxFrames
    /\ \E k \in 1 .. Len(spinsRef) : spinsRef[k].direction # Up

\* Every order in which n sites can be visited.
Orders(n) ==
    { o \in [1 .. n -> 0 .. n - 1] : \A a, b \in 1 .. n : a # b => o[a] # o[b] }

\* C2: in every frame that updates the lattice, each site's new direction is
\* the step of its own start-of-frame direction against the start-of-frame
\* directions of all sites, and visiting the sites in any other order gives
\* the same directions.
C2_OrderIndependent ==
    [][(FrameStep /\ Len(spinsRef) > 0) =>
          /\ \A k \in 1 .. Len(spinsRef) :
                 spinsRef'[k].direction =
                     StepSite(spinsRef[k], mousePosRef', CloneDirections(spinsRef),
                              props, frameDt')
          /\ \A o \in Orders(Len(spinsRef)) :
                 FrameUpdate(o, spinsRef, instanceMatrix, mousePosRef', props,
                             frameDt').spins = spinsRef']_vars

\* C2 witness: a frame has moved the sites of a lattice of several sites, so
\* the next frame starts from neighbours that have just been written.
C2_Witness ==
    /\ frames = 1
    /\ Len(spinsRef) = 4
    /\ Len(prevDirectionsRef) = 4
    /\ props.exchangeStrength > 0
    /\ \A k \in 1 .. 4 : spinsRef[k].direction # prevDirectionsRef[k]
    /\ \E k \in 1 .. 4 : spinsRef[k].direction # spinsRef[1].direction

\* Row and column of the site at position k of the array built for size N.
RowOf(N, k) == (k - 1) \div N

ColOf(N, k) == (k - 1) % N

IsCorner(N, i, j) == i \in {0, N - 1} /\ j \in {0, N - 1}

IsEdge(N, i, j) == (i \in {0, N - 1} \/ j \in {0, N - 1}) /\ ~IsCorner(N, i, j)

\* The neighbour count the claim gives the site (i, j) of a lattice of size N.
ClaimedCount(N, i, j) == IF IsCorner(N, i, j) THEN 2 ELSE IF IsEdge(N, i, j) THEN 3 ELSE 4

\* C3 as claimed: a lattice built for N >= 1 has N * N sites, the corner
\* sites have 2 neighbours, the other edge sites 3, the interior sites 4.
C3_ShapeAsClaimed ==
    (builtSize # << >> /\ builtSize[1] >= 1) =>
        LET N == builtSize[1]
        IN  /\ Len(spinsRef) = N * N
            /\ \A k \in 1 .. Len(spinsRef) :
                   Len(spinsRef[k].neighbors) = ClaimedCount(N, RowOf(N, k), ColOf(N, k))

\* C3 amended: a lattice built for N >= 1 has N * N sites; for N >= 2 the
\* corner sites have 2 neighbours, the other edge sites 3 and the interior
\* sites 4; for N = 1 the single site, a corner, has none.
C3_Shape ==
    (builtSize # << >> /\ builtSize[1] >= 1) =>
        LET N == builtSize[1]
        IN  /\ Len(spinsRef) = N * N
            /\ \A k \in 1 .. Len(spinsRef) :
                   Len(spinsRef[k].neighbors) =
                       IF N = 1 THEN 0 ELSE ClaimedCount(N, RowOf(N, k), ColOf(N, k))

\* C3 witness: a lattice with corner, edge and interior sites has been built.
C3_Witness ==
    /\ builtSize = <<3>>
    /\ Len(spinsRef) = 9
    /\ Len(spinsRef[5].neighbors) = 4
    /\ Len(spinsRef[2].neighbors) = 3
    /\ Len(spinsRef[1].neighbors) = 2

\* The set of the entries of a neighbour list.
NeighborSet(k) == { spinsRef[k].neighbors[a] : a \in 1 .. Len(spinsRef[k].neighbors) }

\* C4: in every reachable state, before and after frames, every neighbour
\* index is an index of the lattice, no site lists itself or lists a
\* neighbour twice, and B is listed by A exactly when A is listed by B.
C4_Adjacency ==
    /\ \A k \in 1 .. Len(spinsRef) :
           /\ NeighborSet(k) \subseteq 0 .. Len(spinsRef) - 1
           /\ k - 1 \notin NeighborSet(k)
           /\ Cardinality(NeighborSet(k)) = Len(spinsRef[k].neighbors)
    /\ \A k, l \in 1 .. Len(spinsRef) :
           (l - 1 \in NeighborSet(k)) <=> (k - 1 \in NeighborSet(l))

\* C4 witness: frames have moved the spins of a lattice with interior sites.
C4_Witness ==
    /\ frames = MaxFrames
    /\ Len(spinsRef) >= 9
    /\ Cardinality(NeighborSet(5)) = 4
    /\ spinsRef[5].direction # Up

\* C5 as claimed: the lattice builder never completes a build for a
\* malformed gridSize (zero or negative).
C5_InvalidSizeRejected == builtSize = << >> \/ builtSize[1] >= 1

\* The in-range sites among the four next to (i, j), as row-major indices.
ExpectedNeighbors(S, i, j) ==
    { a * S + b : <<a, b>> \in
        { c \in { <<i - 1, j>>, <<i + 1, j>>, <<i, j - 1>>, <<i, j + 1>> } :
            c[1] \in 0 .. S - 1 /\ c[2] \in 0 .. S - 1 } }

\* C6: whenever the builder runs, after whatever frames and on whatever
\* lattice, it leaves the lattice of a first build with the same gridSize S:
\* S * S sites (none for S < 1), site k at ((2 i - S + 1) / 4, (2 j - S + 1)
\* / 4, 0), every direction (0, 0, 1), and the in-range four neighbours.
C6_RebuildFresh ==
    [][BuildStep =>
          LET S == props.gridSize
          IN  /\ Len(spinsRef') = IF S < 1 THEN 0 ELSE S * S
              /\ \A k \in 1 .. Len(spinsRef') :
                     LET i == RowOf(S, k)
                         j == ColOf(S, k)
                     IN  /\ spinsRef'[k].position =
                                Vec((2 * i - S + 1) * (One \div 4),
                                    (2 * j - S + 1) * (One \div 4), 0)
                         /\ spinsRef'[k].direction = Up
                         /\ spinsRef'[k].matrix = Compose(spinsRef'[k].position, Up)
                         /\ { spinsRef'[k].neighbors[a] :
                                a \in 1 .. Len(spinsRef'[k].neighbors) }
                                = ExpectedNeighbors(S, i, j)
                         /\ Len(spinsRef'[k].neighbors)
                                = Cardinality(ExpectedNeighbors(S, i, j))]_vars

\* C6 witness: a lattice was rebuilt after a frame had moved the spins of
\* the one before it (the stale snapshot still holds their directions).
C6_Witness ==
    /\ frames >= 1
    /\ ~pendingBuild
    /\ Len(spinsRef) >= 4
    /\ \A k \in 1 .. Len(spinsRef) : spinsRef[k].direction = Up
    /\ \E k \in 1 .. Len(prevDirectionsRef) : prevDirectionsRef[k] # Up

\* The props with the field-polarity flag toggled.
Toggled(p) == [p EXCEPT !.isFieldInverted = ~p.isFieldInverted]

\* C7: in every reachable state and for every site, evaluating the field
\* with isFieldInverted toggled and everything else the same negates the
\* external term exactly and leaves the exchange term as it is.
C7_FieldPolarity ==
    \A k \in 1 .. Len(spinsRef) :
        /\ ExternalTerm(spinsRef[k].position, mousePosRef, Toggled(props))
               = Negate(ExternalTerm(spinsRef[k].position, mousePosRef, props))
        /\ ExchangeTerm(spinsRef[k].neighbors, CloneDirections(spinsRef), Toggled(props))
               = ExchangeTerm(spinsRef[k].neighbors, CloneDirections(spinsRef), props)

\* C7 witness: after a frame, a site has a non-zero external term and a
\* non-zero exchange term.
C7_Witness ==
    /\ frames >= 1
    /\ \E k \in 1 .. Len(spinsRef) :
           /\ ExternalTerm(spinsRef[k].position, mousePosRef, props) # ZeroVec
           /\ ExchangeTerm(spinsRef[k].neighbors, CloneDirections(spinsRef), props) # ZeroVec
           /\ spinsRef[k].direction # Up

\* a and b are parallel or anti-parallel, or one of them is the zero vector.
Parallel(a, b) ==
    /\ a[2] * b[3] = a[3] * b[2]
    /\ a[3] * b[1] = a[1] * b[3]
    /\ a[1] * b[2] = a[2] * b[1]

\* C8 as claimed: in every frame, a site whose effective field is the zero
\* vector or is parallel or anti-parallel to its direction keeps its
\* direction exactly.
C8_ExactNoOp ==
    [][(FrameStep /\ Len(spinsRef) > 0) =>
          \A k \in 1 .. Len(spinsRef) :
              Parallel(spinsRef[k].direction,
                       EffectiveField(spinsRef[k], mousePosRef', CloneDirections(spinsRef),
                                      props))
                  => spinsRef'[k].direction = spinsRef[k].direction]_vars

\* a and b differ by at most the rounding tolerance in every component.
Close(a, b) == \A c \in 1 .. 3 : Abs(a[c] - b[c]) <= 2

\* C8 amended: in every frame, a site whose effective field is the zero
\* vector or is parallel or anti-parallel to its direction m gets the
\* direction normalize(m): m up to the rounding of the renormalisation, and
\* m exactly when the computed length of m is exactly 1.
C8_DegenerateNoOp ==
    [][(FrameStep /\ Len(spinsRef) > 0) =>
          \A k \in 1 .. Len(spinsRef) :
              Parallel(spinsRef[k].direction,
                       EffectiveField(spinsRef[k], mousePosRef', CloneDirections(spinsRef),
                                      props))
                  => /\ Close(spinsRef'[k].direction, spinsRef[k].direction)
                     /\ Length(spinsRef[k].direction) = One
                            => spinsRef'[k].direction = spinsRef[k].direction]_vars

\* C8 witness: the last frame moved some site (prevDirectionsRef holds the
\* directions it started from) and found the field of another one parallel
\* to its direction.
C8_Witness ==
    /\ frames >= 1
    /\ Len(spinsRef) > 0
    /\ Len(prevDirectionsRef) = Len(spinsRef)
    /\ frameDt > 0
    /\ \E l \in 1 .. Len(spinsRef) : spinsRef[l].direction # prevDirectionsRef[l]
    /\ \E k \in 1 .. Len(spinsRef) :
           /\ Parallel(prevDirectionsRef[k],
                       EffectiveField([spinsRef[k] EXCEPT !.direction = prevDirectionsRef[k]],
                                      mousePosRef, prevDirectionsRef, props))
           /\ Close(spinsRef[k].direction, prevDirectionsRef[k])

\* C9: a frame whose ray meets the plane sets the pointer position to the
\* meeting point, a frame whose ray does not leaves it as it was, and no
\* other step changes it.
C9_PointerRetention ==
    [][mousePosRef' =
          IF FrameStep /\ IntersectPlane(ray') # NoHit
          THEN IntersectPlane(ray') ELSE mousePosRef]_vars

\* C9 witness: the last frame's ray missed the plane and the pointer
\* position is still the point an earlier frame's ray met it at.
C9_Witness ==
    /\ frames = 2
    /\ IntersectPlane(ray) = NoHit
    /\ mousePosRef = Vec(One \div 4, One \div 4, 0)

\* C10: every frame computes dt = min(delta, 0.03) * timeStepScale from the
\* timeStepScale of that frame; so dt is at most 0.03 * timeStepScale when
\* delta >= 0, and equal to it when delta >= 0.03.
C10_StepClamp ==
    [][FrameStep =>
          LET cap == Mul(DELTA_CLAMP, props.timeStepScale)
          IN  /\ frameDt' = Mul(IF frameDelta' < DELTA_CLAMP THEN frameDelta'
                                                              ELSE DELTA_CLAMP,
                                props.timeStepScale)
              /\ frameDelta' >= 0 => frameDt' <= cap
              /\ frameDelta' >= DELTA_CLAMP => frameDt' = cap]_vars

\* C10 witness: a frame with a delta above 0.03 has used the clamped dt.
C10_Witness ==
    /\ frames >= 1
    /\ frameDelta > DELTA_CLAMP
    /\ frameDt = Mul(DELTA_CLAMP, props.timeStepScale)
    /\ \E k \in 1 .. Len(spinsRef) : spinsRef[k].direction # Up

\* C11: a frame delivered while the lattice is uninitialized or empty leaves
\* the sites (directions and transforms), the snapshot and the instance
\* buffer as they were and sets no needsUpdate; of the component's state
\* only the pointer position may change (the ray and the frame's delta and
\* dt are the frame's own inputs and locals).
C11_DefensiveNoOp ==
    [][(FrameStep /\ Len(spinsRef) = 0) =>
          /\ spinsRef' = spinsRef
          /\ prevDirectionsRef' = prevDirectionsRef
          /\ instanceMatrix' = instanceMatrix
          /\ needsUpdate' = needsUpdate
          /\ UNCHANGED <<props, builtSize, pendingBuild, pendingSnapshot, depStale>>]_vars

\* C11 witness: the last frame found no lattice (no build and no updating
\* frame has flagged the current meshes) and moved the pointer.
C11_Witness ==
    /\ frames = MaxFrames
    /\ Len(spinsRef) = 0
    /\ ~needsUpdate
    /\ mousePosRef # ZeroVec

\* The props p with every polarity and a choice of externalFieldStrength:
\* zero, the two values the renders pass, and a negative one.
StrengthsAndPolarities(p) ==
    { [p EXCEPT !.isFieldInverted = inv, !.externalFieldStrength = e] :
        inv \in BOOLEAN,
        e \in {0, Defaults.externalFieldStrength, Larger.externalFieldStrength,
               -Defaults.externalFieldStrength} }

\* C12: in every reachable state, for a site whose position is the pointer
\* position, the external term is the zero vector whatever the
\* externalFieldStrength and the polarity flag, and the effective field is
\* the exchange term.
C12_ZeroOffset ==
    \A k \in 1 .. Len(spinsRef) :
        spinsRef[k].position = mousePosRef =>
            \A p \in StrengthsAndPolarities(props) :
                /\ ExternalTerm(spinsRef[k].position, mousePosRef, p) = ZeroVec
                /\ EffectiveField(spinsRef[k], mousePosRef, CloneDirections(spinsRef), p)
                       = ExchangeTerm(spinsRef[k].neighbors, CloneDirections(spinsRef), p)

\* C12 witness: a frame has put the pointer on a site that has neighbours
\* and a non-zero exchange term, and has moved another site.
C12_Witness ==
    /\ frames >= 1
    /\ mousePosRef # ZeroVec
    /\ \E k \in 1 .. Len(spinsRef) :
           /\ spinsRef[k].position = mousePosRef
           /\ ExchangeTerm(spinsRef[k].neighbors, CloneDirections(spinsRef), props) # ZeroVec
    /\ \E l \in 1 .. Len(spinsRef) : spinsRef[l].direction # Up

\* What a frame must not touch: the sites' ids, positions and neighbour lists.
Structure(spins) ==
    [k \in 1 .. Len(spins) |->
        [id |-> spins[k].id, position |-> spins[k].position,
         neighbors |-> spins[k].neighbors]]

\* C13: a frame leaves the number of sites and every site's position and
\* neighbour list as they were, and leaves the props and the effects'
\* bookkeeping alone; after every step these are what the builder made
\* them for the gridSize it last ran for; and a step that changes them is a
\* run of the builder for a gridSize other than the one it last ran for.
C13_FrameCondition ==
    [][/\ FrameStep =>
              /\ Structure(spinsRef') = Structure(spinsRef)
              /\ UNCHANGED <<props, builtSize, pendingBuild, pendingSnapshot, depStale>>
       /\ Structure(spinsRef') =
              IF builtSize' = << >> THEN << >>
              ELSE Structure(BuildLattice(builtSize'[1]))
       /\ Structure(spinsRef') # Structure(spinsRef) =>
              /\ BuildStep
              /\ builtSize' = <<props.gridSize>>
              /\ builtSize # builtSize']_vars

\* C13 witness: all the frames have run on a lattice with corner, edge and
\* interior sites and have moved its spins.
C13_Witness ==
    /\ frames = MaxFrames
    /\ builtSize = <<3>>
    /\ Len(spinsRef) = 9
    /\ Len(spinsRef[5].neighbors) = 4
    /\ \A k \in 1 .. 9 : spinsRef[k].direction # Up
    /\ Structure(spinsRef) = Structure(BuildLattice(3))

\* C14: in every frame that updates the lattice, the snapshot the frame
\* leaves in prevDirectionsRef has one entry per site, the direction the
\* site had when the frame began (also where the frame has since moved the
\* site); every neighbour index of every site has an entry in it; and every
\* site's new direction is its step against that snapshot.
C14_SnapshotComplete ==
    [][(FrameStep /\ Len(spinsRef) > 0) =>
          /\ Len(prevDirectionsRef') = Len(spinsRef')
          /\ \A k \in 1 .. Len(spinsRef) :
                 /\ prevDirectionsRef'[k] = spinsRef[k].direction
                 /\ \A a \in 1 .. Len(spinsRef[k].neighbors) :
                        spinsRef[k].neighbors[a] + 1 \in DOMAIN prevDirectionsRef'
                 /\ spinsRef'[k].direction =
                        StepSite(spinsRef[k], mousePosRef', prevDirectionsRef', props,
                                 frameDt')]_vars

\* C14 witness: the first frame after a build has moved every site of a
\* lattice of four sites, and the snapshot still holds the directions of
\* the build.
C14_Witness ==
    /\ frames = 1
    /\ builtSize = <<2>>
    /\ Len(spinsRef) = 4
    /\ prevDirectionsRef = <<Up, Up, Up, Up>>
    /\ \E k \in 1 .. 4 : spinsRef[k].direction # Up
    /\ \A k \in 1 .. 4 : Len(spinsRef[k].neighbors) = 2

====
